---- MODULE Spec2Model ----
(***************************************************************************)
(* A model of nneslib: the Significance result classes                     *)
(* (nneslib/classes), the edge algorithms (nneslib/edge), the node         *)
(* efficiency centrality (nneslib/node/internal/EffC.py), the spectral     *)
(* centrality (nneslib/node/node_significance.py) and the significance     *)
(* index (nneslib/evaluation/community_structure.py).                      *)
(*                                                                         *)
(* Conventions.  A Python call is one action; what it returned or raised   *)
(* is recorded in `outcome` (status "return" or the exception's name).     *)
(* A Python dict is a sequence of <<key, value>> entries with distinct     *)
(* keys, in insertion order.  Scores are floats in the code; the model     *)
(* keeps them as integers, or as exact fractions [n, d] where the code     *)
(* divides.  networkx is the version the code needs (>= 2.0, the first     *)
(* with nx.NodeNotFound): Graph.neighbors returns an iterator there and    *)
(* Graph.subgraph a view.  Eigenvalues and eigenvectors, not rational in   *)
(* general, are integer stand-ins chosen from bounded sets.                *)
(***************************************************************************)
EXTENDS Integers, Sequences, FiniteSets, TLC

VARIABLES graph, result, outcome, frame

vars == <<graph, result, outcome, frame>>

\* ------------------------------------------------------------------ bounds
MaxNodes == 2
MaxEntries == 2

\* ----------------------------------------------------------- Python values
NoResult == [kind |-> "none"]
NoOutcome == [op |-> "none", status |-> "none"]
NoFrame == [pc |-> "idle"]
None == "None"

Range(s) == {s[i] : i \in DOMAIN s}

\* The keys of a dict, and the value stored under a key that is present.
Keys(d) == {d[i][1] : i \in DOMAIN d}
Lookup(d, key) == d[CHOOSE i \in DOMAIN d : d[i][1] = key][2]

\* d[key]: the stored value, or KeyError.
DictGetItem(d, key) ==
    IF key \in Keys(d)
    THEN [status |-> "return", value |-> Lookup(d, key)]
    ELSE [status |-> "KeyError"]

\* All dicts with at most `len` entries, keys from K and values from V.
RECURSIVE Dicts(_, _, _)
Dicts(K, V, len) ==
    IF len = 0 THEN {<<>>}
    ELSE LET shorter == Dicts(K, V, len - 1)
         IN  shorter \cup {Append(d, <<k, v>>) :
                              d \in {x \in shorter : Len(x) = len - 1},
                              k \in K, v \in V}

DistinctKeys(d) == \A i, j \in DOMAIN d : d[i][1] = d[j][1] => i = j

\* ------------------------------------------------------------------ graphs
\* nodes: list(graph.nodes()); edges: the tuples graph.edges() yields.
NodeList(n) == [i \in 1..n |-> i]
UndirectedEdgeSets(n) == SUBSET {<<u, v>> \in (1..n) \X (1..n) : u < v}
DirectedEdgeSets(n) == SUBSET {<<u, v>> \in (1..n) \X (1..n) : u # v}

UndirectedGraphs(lo, hi) ==
    UNION {{[nodes |-> NodeList(n), edges |-> E, directed |-> FALSE] :
               E \in UndirectedEdgeSets(n)} : n \in lo..hi}
DirectedGraphs(lo, hi) ==
    UNION {{[nodes |-> NodeList(n), edges |-> E, directed |-> TRUE] :
               E \in DirectedEdgeSets(n)} : n \in lo..hi}

has_node(g, n) == n \in Range(g.nodes)
has_edge(g, u, v) ==
    \/ <<u, v>> \in g.edges
    \/ ~g.directed /\ <<v, u>> \in g.edges
is_directed(g) == g.directed

\* ------------------------------------------------- classes/significance.py
\* Significance.__init__: stores its four arguments, checks nothing.
Significance(kind, significances, g, method_name, method_parameters) ==
    [kind |-> kind,
     significance |-> significances,
     graph |-> g,
     method_name |-> method_name,
     method_parameters |-> method_parameters]

\* --------------------------------------------- classes/node_significance.py
NodeSignificance(significances, g, method_name, method_parameters) ==
    [status |-> "return",
     value |-> Significance("node", significances, g, method_name,
                            method_parameters)]

\* NodeSignificance.get: the test raises NodeNotFound when the node IS a
\* key; otherwise the subscript on the return line is evaluated.
NodeGet(self, node) ==
    IF node \in Keys(self.significance)
    THEN [status |-> "NodeNotFound"]
    ELSE DictGetItem(self.significance, node)

\* --------------------------------------------- classes/edge_significance.py
\* vertices_dict: node -> index in list(graph.nodes()), from 0.
VerticesDict(g) == [n \in Range(g.nodes) |->
                       (CHOOSE i \in DOMAIN g.nodes : g.nodes[i] = n) - 1]

Zeros(n) == [i \in 0..(n - 1) |-> [j \in 0..(n - 1) |-> 0]]

\* The loop of _get_numpy_significance_matrix without the mirrored write.
RECURSIVE FillMatrixOneWay(_, _, _, _, _)
FillMatrixOneWay(sig, i, vd, directed, m) ==
    IF i > Len(sig) THEN [status |-> "return", matrix |-> m]
    ELSE LET edge == sig[i][1]
         IN  IF edge[1] \notin DOMAIN vd \/ edge[2] \notin DOMAIN vd
             THEN [status |-> "KeyError"]
             ELSE FillMatrixOneWay(sig, i + 1, vd, directed,
                      [m EXCEPT ![vd[edge[1]]][vd[edge[2]]] = sig[i][2]])

\* The loop over self.significance.items(), from entry i on.
RECURSIVE FillMatrix(_, _, _, _, _)
FillMatrix(sig, i, vd, directed, m) ==
    IF i > Len(sig) THEN [status |-> "return", matrix |-> m]
    ELSE LET edge == sig[i][1]
             significance == sig[i][2]
         IN  IF edge[1] \notin DOMAIN vd \/ edge[2] \notin DOMAIN vd
             THEN [status |-> "KeyError"]
             ELSE LET source == vd[edge[1]]
                      target == vd[edge[2]]
                      m1 == [m EXCEPT ![source][target] = significance]
                      m2 == IF ~directed
                            THEN [m1 EXCEPT ![target][source] = significance]
                            ELSE m1
                  IN  FillMatrix(sig, i + 1, vd, directed, m2)

get_numpy_significance_matrix(self) ==
    LET vertices_dict == VerticesDict(self.graph)
        r == FillMatrix(self.significance, 1, vertices_dict,
                        is_directed(self.graph), Zeros(Len(self.graph.nodes)))
    IN  IF r.status = "return"
        THEN [status |-> "return", significance_matrix |-> r.matrix,
              vertices_dict |-> vertices_dict]
        ELSE r

EdgeSignificance(significances, g, method_name, method_parameters) ==
    LET self == Significance("edge", significances, g, method_name,
                             method_parameters)
        r == get_numpy_significance_matrix(self)
    IN  IF r.status = "return"
        THEN [status |-> "return",
              value |-> [kind |-> "edge",
                         significance |-> significances,
                         graph |-> g,
                         method_name |-> method_name,
                         method_parameters |-> method_parameters,
                         significance_matrix |-> r.significance_matrix,
                         vertices_dict |-> r.vertices_dict]]
        ELSE r

\* get without the test of the target: the subscript raises KeyError.
EdgeGetSourceOnly(self, source, target) ==
    IF source \notin DOMAIN self.vertices_dict
    THEN [status |-> "NodeNotFound"]
    ELSE IF target \notin DOMAIN self.vertices_dict
    THEN [status |-> "KeyError"]
    ELSE [status |-> "return",
          value |-> self.significance_matrix[self.vertices_dict[source]]
                                            [self.vertices_dict[target]]]

EdgeGet(self, source, target) ==
    IF source \notin DOMAIN self.vertices_dict
    THEN [status |-> "NodeNotFound"]
    ELSE IF target \notin DOMAIN self.vertices_dict
    THEN [status |-> "NodeNotFound"]
    ELSE [status |-> "return",
          value |-> self.significance_matrix[self.vertices_dict[source]]
                                            [self.vertices_dict[target]]]

\* ------------------------------------------ Significance.write_to_json
\* The Python type of the keys of a result's significance dict: a node id
\* is an int, an edge is a tuple.
KeyType(self) == IF self.kind = "edge" THEN "tuple" ELSE "int"

\* json: a dict key must be a str, int, float, bool or None.
JsonKeyTypes == {"str", "int", "float", "bool", "NoneType"}

\* json writes an int key as its decimal string.
JsonKey(k) == ToString(k)

\* json.dump's encoding of a dict whose keys have type `keytype`: a key of
\* another type is dropped under skipkeys=True and is a TypeError otherwise.
RECURSIVE JsonDict(_, _, _, _, _)
JsonDict(d, i, keytype, skipkeys, out) ==
    IF i > Len(d) THEN [status |-> "return", value |-> out]
    ELSE IF keytype \in JsonKeyTypes
    THEN JsonDict(d, i + 1, keytype, skipkeys,
                  Append(out, <<JsonKey(d[i][1]), d[i][2]>>))
    ELSE IF skipkeys
    THEN JsonDict(d, i + 1, keytype, skipkeys, out)
    ELSE [status |-> "TypeError"]

\* write_to_json(filepath, **kwargs): kwargs go to json.dump; skipkeys is
\* the one that changes what is written.
write_to_json(self, skipkeys) ==
    LET sig == JsonDict(self.significance, 1, KeyType(self), skipkeys, <<>>)
    IN  IF sig.status = "return"
        THEN [status |-> "return",
              value |-> [significance |-> sig.value,
                         algorithm |-> self.method_name,
                         params |-> self.method_parameters]]
        ELSE sig

\* ============================================ the result classes in use
\* What a caller may pass: node ids of the graph and one id that is not;
\* as edge keys, the pairs of nodes and two pairs with the foreign id.
NodeIds(g) == 1..(Len(g.nodes) + 1)
Scores == {1, 2}
NodeDicts(g) == {d \in Dicts(NodeIds(g), Scores, MaxEntries) : DistinctKeys(d)}
EdgeKeys(g) ==
    (Range(g.nodes) \X Range(g.nodes))
        \cup {<<1, Len(g.nodes) + 1>>, <<Len(g.nodes) + 1, 1>>}
EdgeDicts(g) == {d \in Dicts(EdgeKeys(g), Scores, MaxEntries) : DistinctKeys(d)}

\* A result object exists and no method of it has been called yet.  The
\* methods leave the object as it is, so a later call reaches no state that
\* a first call does not.
Fresh == outcome.op \in {"NodeSignificance", "EdgeSignificance"}

Called(op, args, r) ==
    [op |-> op, args |-> args, status |-> r.status,
     value |-> IF r.status = "return" THEN r.value ELSE None]

Init ==
    /\ graph \in UndirectedGraphs(1, MaxNodes) \cup DirectedGraphs(1, MaxNodes)
    /\ result = NoResult
    /\ outcome = NoOutcome
    /\ frame = NoFrame

NewNodeSignificance ==
    /\ result.kind = "none"
    /\ outcome.op = "none"
    /\ \E significances \in NodeDicts(graph) :
         LET r == NodeSignificance(significances, graph, "user", None)
         IN  /\ result' = r.value
             /\ outcome' = [op |-> "NodeSignificance", args |-> significances,
                            status |-> r.status]
    /\ UNCHANGED <<graph, frame>>

NewEdgeSignificance ==
    /\ result.kind = "none"
    /\ outcome.op = "none"
    /\ \E significances \in EdgeDicts(graph) :
         LET r == EdgeSignificance(significances, graph, "user", None)
         IN  /\ result' = IF r.status = "return" THEN r.value ELSE result
             /\ outcome' = [op |-> "EdgeSignificance", args |-> significances,
                            status |-> r.status]
    /\ UNCHANGED <<graph, frame>>

CallNodeGet ==
    /\ result.kind = "node"
    /\ Fresh
    /\ \E node \in NodeIds(graph) :
         outcome' = Called("NodeSignificance.get", <<node>>,
                           NodeGet(result, node))
    /\ UNCHANGED <<graph, result, frame>>

CallEdgeGet ==
    /\ result.kind = "edge"
    /\ Fresh
    /\ \E source \in NodeIds(graph), target \in NodeIds(graph) :
         outcome' = Called("EdgeSignificance.get", <<source, target>>,
                           EdgeGet(result, source, target))
    /\ UNCHANGED <<graph, result, frame>>

CallWriteToJson ==
    /\ result.kind \in {"node", "edge"}
    /\ Fresh
    /\ \E skipkeys \in BOOLEAN :
         outcome' = Called("write_to_json", <<skipkeys>>,
                           write_to_json(result, skipkeys))
    /\ UNCHANGED <<graph, result, frame>>

Next ==
    \/ NewNodeSignificance
    \/ NewEdgeSignificance
    \/ CallNodeGet
    \/ CallEdgeGet
    \/ CallWriteToJson

Spec == Init /\ [][Next]_vars

\* ===================================================== the edge algorithms
MaxAlgNodes == 4
MaxK == 2
MaxRuo == 2

\* Exact fractions n/d, d > 0, in lowest terms, for the code's floats.
RECURSIVE Gcd(_, _)
Gcd(a, b) == IF b = 0 THEN a ELSE Gcd(b, a % b)
Abs(x) == IF x < 0 THEN -x ELSE x
Frac(n, d) ==
    LET g == Gcd(Abs(n), Abs(d))
    IN  IF g = 0 THEN [n |-> 0, d |-> 1] ELSE [n |-> n \div g, d |-> d \div g]
RAdd(a, b) == Frac(a.n * b.d + b.n * a.d, a.d * b.d)
RSub(a, b) == Frac(a.n * b.d - b.n * a.d, a.d * b.d)

\* A division that yields nan (kept as 0/0) for a zero divisor, as a
\* numpy float does.
PyDivNan(a, b) ==
    IF b.n = 0
    THEN [status |-> "return", value |-> [n |-> 0, d |-> 0]]
    ELSE [status |-> "return",
          value |-> IF b.n > 0 THEN Frac(a.n * b.d, a.d * b.n)
                    ELSE Frac(-(a.n * b.d), -(a.d * b.n))]
\* Python's a / b: ZeroDivisionError when b is 0.
PyDiv(a, b) ==
    IF b.n = 0 THEN [status |-> "ZeroDivisionError"]
    ELSE [status |-> "return",
          value |-> IF b.n > 0 THEN Frac(a.n * b.d, a.d * b.n)
                    ELSE Frac(-(a.n * b.d), -(a.d * b.n))]

\* d[key] = value.  A list is unhashable: using one as a key is a TypeError.
UnhashableTypes == {"list", "dict", "set"}
DictSetItem(d, keytype, key, value) ==
    IF keytype \in UnhashableTypes THEN [status |-> "TypeError"]
    ELSE IF key \in Keys(d)
    THEN [status |-> "return",
          value |-> [i \in DOMAIN d |->
                        IF d[i][1] = key THEN <<key, value>> ELSE d[i]]]
    ELSE [status |-> "return", value |-> Append(d, <<key, value>>)]

\* graph.neighbors(n): an iterator over the nodes adjacent to n.
Adjacent(g, n) ==
    {m \in Range(g.nodes) : <<n, m>> \in g.edges
                            \/ (~g.directed /\ <<m, n>> \in g.edges)}
neighbors(g, n) == [pytype |-> "dict_keyiterator", items |-> Adjacent(g, n)]

\* len(x): defined for a list, not for an iterator.
PyLen(x) ==
    IF x.pytype = "list"
    THEN [status |-> "return", value |-> Cardinality(x.items)]
    ELSE [status |-> "TypeError"]

\* graph.edges() as a list, in lexicographic order.
RECURSIVE SortedEdges(_)
SortedEdges(E) ==
    IF E = {} THEN <<>>
    ELSE LET first == CHOOSE e \in E : \A f \in E :
                          e[1] < f[1] \/ (e[1] = f[1] /\ e[2] <= f[2])
         IN  <<first>> \o SortedEdges(E \ {first})
EdgeList(g) == SortedEdges(g.edges)

\* ---------------------------------------------------- diffusion_importance
\* The key the loop stores under is the list [u, v].
DiffusionKeyType == "list"

RECURSIVE DiffusionLoop(_, _, _, _)
DiffusionLoop(g, edges, i, significance) ==
    IF i > Len(edges) THEN [status |-> "return", value |-> significance]
    ELSE LET u == edges[i][1]
             v == edges[i][2]
             u_neighbors == neighbors(g, u)
             v_neighbors == neighbors(g, v)
             n_uv == Cardinality({node \in u_neighbors.items :
                                     has_edge(g, v, node) /\ node # v})
             n_vu == Cardinality({node \in v_neighbors.items :
                                     has_edge(g, u, node) /\ node # u})
             r == DictSetItem(significance, DiffusionKeyType, <<u, v>>,
                              Frac(n_uv + n_vu, 2))
         IN  IF r.status # "return" THEN r
             ELSE DiffusionLoop(g, edges, i + 1, r.value)

diffusion_importance(g) ==
    LET r == DiffusionLoop(g, EdgeList(g), 1, <<>>)
    IN  IF r.status # "return" THEN r
        ELSE EdgeSignificance(r.value, g, "diffusion_importance", None)

\* -------------------------------------------------------------- brightness
\* nx.find_cliques: the maximal cliques of the graph.
IsClique(g, c) == \A a, b \in c : a # b => has_edge(g, a, b)
find_cliques(g) ==
    {c \in SUBSET Range(g.nodes) :
        /\ c # {}
        /\ IsClique(g, c)
        /\ \A n \in Range(g.nodes) \ c : ~IsClique(g, c \cup {n})}

\* sorted(..., key=len, reverse=True): every order of the cliques with the
\* sizes descending (the order among equal sizes is the enumeration's).
RECURSIVE SortedBySize(_)
SortedBySize(C) ==
    IF C = {} THEN {<<>>}
    ELSE UNION {{<<c>> \o rest : rest \in SortedBySize(C \ {c})} :
                  c \in {x \in C : \A y \in C :
                                      Cardinality(x) >= Cardinality(y)}}

\* The scan of the cliques for the edge (u, v), from clique i on.
RECURSIVE CliqueScan(_, _, _, _, _, _, _)
CliqueScan(cliques, i, u, v, s_u, s_v, s_e) ==
    IF i > Len(cliques) THEN <<s_u, s_v, s_e>>
    ELSE IF s_u * s_v * s_e # 0 THEN <<s_u, s_v, s_e>>
    ELSE LET clique == cliques[i]
             s_u1 == IF u \in clique /\ s_u = 0
                     THEN Cardinality(clique) ELSE s_u
             s_v1 == IF v \in clique /\ s_v = 0
                     THEN Cardinality(clique) ELSE s_v
             s_e1 == IF u \in clique /\ s_e = 0 /\ v \in clique
                     THEN Cardinality(clique) ELSE s_e
         IN  CliqueScan(cliques, i + 1, u, v, s_u1, s_v1, s_e1)

\* np.sqrt(s_u * s_v) / s_e, kept as the radicand and the divisor.
BrightnessScore(s) == [radicand |-> s[1] * s[2], den |-> s[3]]

BrightnessKeyType == "list"

RECURSIVE BrightnessLoop(_, _, _, _, _)
BrightnessLoop(g, cliques, edges, i, significance) ==
    IF i > Len(edges) THEN [status |-> "return", value |-> significance]
    ELSE LET u == edges[i][1]
             v == edges[i][2]
             s == CliqueScan(cliques, 1, u, v, 0, 0, 0)
             r == DictSetItem(significance, BrightnessKeyType, <<u, v>>,
                              BrightnessScore(s))
         IN  IF r.status # "return" THEN r
             ELSE BrightnessLoop(g, cliques, edges, i + 1, r.value)

brightness(g, cliques) ==
    LET r == BrightnessLoop(g, cliques, EdgeList(g), 1, <<>>)
    IN  IF r.status # "return" THEN r
        ELSE EdgeSignificance(r.value, g, "brightness", None)

\* ------------------------------------------------------ edge/internal/ERW.py
\* _normalized_degree: len(graph.neighbors(node)) / number_of_nodes for
\* every node, from node i of the list on.
RECURSIVE NormalizedDegreeLoop(_, _, _)
NormalizedDegreeLoop(g, i, d) ==
    IF i > Len(g.nodes) THEN [status |-> "return", value |-> d]
    ELSE LET node == g.nodes[i]
             l == PyLen(neighbors(g, node))
         IN  IF l.status # "return" THEN l
             ELSE LET q == PyDiv(Frac(l.value, 1), Frac(Len(g.nodes), 1))
                  IN  IF q.status # "return" THEN q
                      ELSE NormalizedDegreeLoop(g, i + 1,
                                                Append(d, <<node, q.value>>))

normalized_degree(g) == NormalizedDegreeLoop(g, 1, <<>>)

\* _initial_edge_weight: {(u, v): 1 / edges_number} over graph.edges().
initial_edge_weight(g) ==
    LET edges_number == Cardinality(g.edges)
        edges == EdgeList(g)
    IN  [i \in DOMAIN edges |-> <<edges[i], Frac(1, edges_number)>>]

\* T[(u, v)] = T[(v, u)] = 0 for every edge.
TraversedInit(g) ==
    [p \in g.edges \cup {<<e[2], e[1]>> : e \in g.edges} |-> 0]

RECURSIVE SumOver(_, _)
SumOver(f, S) ==
    IF S = {} THEN 0
    ELSE LET x == CHOOSE y \in S : TRUE IN f[x] + SumOver(f, S \ {x})

\* edge_weight[key] += beta
AddWeight(edge_weight, key, beta) ==
    [i \in DOMAIN edge_weight |->
        IF edge_weight[i][1] = key
        THEN <<key, RAdd(edge_weight[i][2], beta)>>
        ELSE edge_weight[i]]

\* _message_propagation: the outcomes of one walk from vn (the parameter
\* the code calls ruo is the increment beta).  The loop test calls len() on
\* the neighbors iterator as soon as N < k holds.
RECURSIVE message_propagation(_, _, _, _, _, _, _)
message_propagation(g, vn, N, k, beta, edge_weight, T) ==
    IF ~(N < k) THEN {[status |-> "return", value |-> edge_weight]}
    ELSE LET l == PyLen(neighbors(g, vn))
         IN  IF l.status # "return" THEN {l}
             ELSE IF ~(l.value >
                       SumOver([u \in Adjacent(g, vn) |-> T[<<u, vn>>]],
                               Adjacent(g, vn)))
             THEN {[status |-> "return", value |-> edge_weight]}
             ELSE UNION {
                 LET selected_edge == <<u, vn>>
                     reversed == <<vn, u>>
                     T1 == [T EXCEPT ![selected_edge] = 1, ![reversed] = 1]
                 IN  IF selected_edge \in Keys(edge_weight)
                     THEN message_propagation(g, u, N + 1, k, beta,
                              AddWeight(edge_weight, selected_edge, beta), T1)
                     ELSE IF reversed \in Keys(edge_weight)
                     THEN message_propagation(g, u, N + 1, k, beta,
                              AddWeight(edge_weight, reversed, beta), T1)
                     ELSE {[status |-> "KeyError"]}
                 : u \in {w \in Adjacent(g, vn) : T[<<w, vn>>] = 0}}

\* The loop `for i in range(0, ruo)`, from iteration i on; random.choice
\* of an empty list is an IndexError.
RECURSIVE WalkLoop(_, _, _, _, _, _)
WalkLoop(g, k, ruo, beta, i, edge_weight) ==
    IF i >= ruo THEN {[status |-> "return", value |-> edge_weight]}
    ELSE IF g.nodes = <<>> THEN {[status |-> "IndexError"]}
    ELSE UNION {
        UNION {IF r.status # "return" THEN {r}
               ELSE WalkLoop(g, k, ruo, beta, i + 1, r.value)
               : r \in message_propagation(g, vn, 0, k, beta, edge_weight,
                                           TraversedInit(g))}
        : vn \in Range(g.nodes)}

edge_random_walk_k_path(g, k, ruo, beta) ==
    LET normlized_deg == normalized_degree(g)
    IN  IF normlized_deg.status # "return" THEN {normlized_deg}
        ELSE WalkLoop(g, k, ruo, beta, 0, initial_edge_weight(g))

ERW_Kpath(g, k, ruo, beta) ==
    {IF r.status # "return" THEN r
     ELSE EdgeSignificance(r.value, g, "ERW_Kpath",
                           <<<<"k", k>>, <<"ruo", ruo>>, <<"beta", beta>>>>)
     : r \in edge_random_walk_k_path(g, k, ruo, Frac(beta, 1))}

\* ------------------------------------------- the edge algorithms in use
Betas == {1, 2}

InitEdge ==
    /\ graph \in UndirectedGraphs(0, MaxAlgNodes)
    /\ result = NoResult
    /\ outcome = NoOutcome
    /\ frame = NoFrame

Returned(r) == IF r.status = "return" THEN r.value ELSE result

CallDiffusionImportance ==
    /\ LET r == diffusion_importance(graph)
       IN  /\ outcome' = [op |-> "diffusion_importance", args |-> <<>>,
                          status |-> r.status]
           /\ result' = Returned(r)
    /\ UNCHANGED <<graph, frame>>

CallBrightness ==
    /\ \E cliques \in SortedBySize(find_cliques(graph)) :
         LET r == brightness(graph, cliques)
         IN  /\ outcome' = [op |-> "brightness", args |-> <<cliques>>,
                            status |-> r.status]
             /\ result' = Returned(r)
    /\ UNCHANGED <<graph, frame>>

CallERWKpath ==
    /\ \E k \in -1..MaxK, ruo \in -1..MaxRuo, beta \in Betas :
         \E r \in ERW_Kpath(graph, k, ruo, beta) :
             /\ outcome' = [op |-> "ERW_Kpath", args |-> <<k, ruo, beta>>,
                            status |-> r.status]
             /\ result' = Returned(r)
    /\ UNCHANGED <<graph, frame>>

NextEdge ==
    \/ CallDiffusionImportance
    \/ CallBrightness
    \/ CallERWKpath

SpecEdge == InitEdge /\ [][NextEdge]_vars

\* One walk, as line 10 calls it in the first iteration: from a node vn of
\* the graph, with N = 0 and the initial weights.
CallMessagePropagation ==
    /\ \E vn \in Range(graph.nodes), k \in -1..MaxK, beta \in Betas :
         \E r \in message_propagation(graph, vn, 0, k, Frac(beta, 1),
                                      initial_edge_weight(graph),
                                      TraversedInit(graph)) :
             outcome' = [op |-> "_message_propagation",
                         args |-> <<vn, k, beta>>,
                         status |-> r.status,
                         value |-> IF r.status = "return" THEN r.value
                                   ELSE None]
    /\ UNCHANGED <<graph, result, frame>>

NextWalk ==
    \/ CallMessagePropagation
    \/ CallERWKpath

SpecWalk == InitEdge /\ [][NextWalk]_vars

\* ================================================ node/internal/EffC.py
\* The graph of test_EffC: nodes 1..9 in the order they are added.
TestGraph ==
    [nodes |-> <<1, 2, 3, 4, 5, 6, 7, 8, 9>>,
     edges |-> {<<1, 3>>, <<2, 3>>, <<4, 3>>, <<5, 3>>, <<6, 3>>, <<7, 3>>,
                <<5, 7>>, <<3, 9>>, <<7, 8>>, <<8, 9>>, <<2, 9>>, <<4, 5>>,
                <<5, 6>>},
     directed |-> FALSE]

\* removed_node is None
NoNode == 0

\* The number of hops of a shortest path to t from the nodes of `frontier`
\* (which are d hops from the source) in the graph without the node
\* `removed`; -1 when there is no path.
RECURSIVE Hops(_, _, _, _, _, _)
Hops(g, removed, frontier, visited, t, d) ==
    IF t \in frontier THEN d
    ELSE IF frontier = {} THEN -1
    ELSE LET next == (UNION {Adjacent(g, n) : n \in frontier})
                         \ (visited \cup {removed})
         IN  Hops(g, removed, next, visited \cup next, t, d + 1)

Distance(g, removed, s, t) == Hops(g, removed, {s}, {s}, t, 0)

\* The shortest paths from s to t, as node lists.
RECURSIVE ShortestPaths(_, _, _)
ShortestPaths(g, s, t) ==
    IF s = t THEN {<<t>>}
    ELSE LET d == Distance(g, NoNode, s, t)
         IN  IF d = -1 THEN {}
             ELSE UNION {{<<s>> \o p : p \in ShortestPaths(g, n, t)} :
                           n \in {m \in Adjacent(g, s) :
                                     Distance(g, NoNode, m, t) = d - 1}}

\* nx.shortest_path(graph): one shortest path for every connected pair, and
\* which one is up to networkx.  The dicts hold the entries the code reads,
\* those of a source and the targets after it in `nodes`.
RECURSIVE PathsToTargets(_, _, _, _)
PathsToTargets(g, nodes, index, j) ==
    IF j > Len(nodes) THEN {<<>>}
    ELSE LET paths == ShortestPaths(g, nodes[index], nodes[j])
             rest == PathsToTargets(g, nodes, index, j + 1)
         IN  IF paths = {} THEN rest
             ELSE {<<<<<<nodes[index], nodes[j]>>, p>>>> \o r :
                      p \in paths, r \in rest}

RECURSIVE PathsFromSources(_, _, _)
PathsFromSources(g, nodes, index) ==
    IF index >= Len(nodes) THEN {<<>>}
    ELSE {a \o b : a \in PathsToTargets(g, nodes, index, index + 1),
                   b \in PathsFromSources(g, nodes, index + 1)}

nx_shortest_path(g) == PathsFromSources(g, g.nodes, 1)

\* shortest_path[source].get(target, [])
StoredPath(shortest_path, source, target) ==
    IF <<source, target>> \in Keys(shortest_path)
    THEN Lookup(shortest_path, <<source, target>>)
    ELSE <<>>

\* The stored value is reused for every pair, whether or not the removed
\* node is on the stored path.
efficiencyReuseOnly(shortest_path, source, target, removed_node, g) ==
    IF removed_node = NoNode
    THEN LET distance == StoredPath(shortest_path, source, target)
         IN  IF Len(distance) = 0 THEN Frac(0, 1)
             ELSE Frac(1, Len(distance) - 1)
    ELSE IF removed_node = source \/ removed_node = target THEN Frac(0, 1)
    ELSE LET distance == StoredPath(shortest_path, source, target)
         IN  IF Len(distance) = 0 THEN Frac(0, 1)
             ELSE Frac(1, Len(distance) - 1)
\* _efficiency, lines 17-34.  Line 29-33, the shortest path in the subgraph
\* without removed_node (no path: the except branch), is Distance.
efficiency(shortest_path, source, target, removed_node, g) ==
    IF removed_node = NoNode
    THEN LET distance == StoredPath(shortest_path, source, target)
         IN  IF Len(distance) = 0 THEN Frac(0, 1)
             ELSE Frac(1, Len(distance) - 1)
    ELSE IF removed_node = source \/ removed_node = target THEN Frac(0, 1)
    ELSE LET distance == StoredPath(shortest_path, source, target)
         IN  IF Len(distance) = 0 THEN Frac(0, 1)
             ELSE IF removed_node \notin Range(distance)
             THEN Frac(1, Len(distance) - 1)
             ELSE LET hops == Distance(g, removed_node, source, target)
                  IN  IF hops = -1 THEN Frac(0, 1) ELSE Frac(1, hops)

\* Line 29 is reached: the call gets past the tests of lines 22-27.
ReachesSubgraph(shortest_path, source, target, removed_node) ==
    /\ removed_node # NoNode
    /\ removed_node # source
    /\ removed_node # target
    /\ removed_node \in Range(StoredPath(shortest_path, source, target))

\* What G.remove_node(removed_node) would leave of the graph.
GraphAfterRemoveNode(g, removed_node) ==
    [g EXCEPT !.nodes = SelectSeq(g.nodes, LAMBDA n : n # removed_node),
              !.edges = {e \in g.edges : e[1] # removed_node
                                         /\ e[2] # removed_node}]
\* The graph after line 29: graph.subgraph(...) builds a view of the nodes
\* it is given and leaves the graph it is called on as it is.
GraphAfterSubgraph(g, removed_node) == g

\* The graph after the calls of _efficiency of one pass over the pairs.
GraphAfterPass(shortest_path, nodes, removed_node, g) ==
    IF \E i, j \in DOMAIN nodes :
          i < j /\ ReachesSubgraph(shortest_path, nodes[i], nodes[j],
                                   removed_node)
    THEN GraphAfterSubgraph(g, removed_node)
    ELSE g

\* sum([_efficiency(...) for index, source in enumerate(nodes[:-1])
\*                         for target in nodes[index + 1:]])
RECURSIVE SumTargets(_, _, _, _, _, _)
SumTargets(shortest_path, nodes, index, j, removed_node, g) ==
    IF j > Len(nodes) THEN Frac(0, 1)
    ELSE RAdd(efficiency(shortest_path, nodes[index], nodes[j],
                         removed_node, g),
              SumTargets(shortest_path, nodes, index, j + 1, removed_node, g))

RECURSIVE SumSources(_, _, _, _, _)
SumSources(shortest_path, nodes, index, removed_node, g) ==
    IF index >= Len(nodes) THEN Frac(0, 1)
    ELSE RAdd(SumTargets(shortest_path, nodes, index, index + 1,
                         removed_node, g),
              SumSources(shortest_path, nodes, index + 1, removed_node, g))

SumEfficiency(shortest_path, nodes, removed_node, g) ==
    SumSources(shortest_path, nodes, 1, removed_node, g)

\* removed_N = len(nodes); the line before it, commented out in the code,
\* is removed_N = len(nodes) - 1.
RemovedNMinusOne(nodes) == Len(nodes) - 1
RemovedN(nodes) == Len(nodes)

InitEffC ==
    /\ graph \in UndirectedGraphs(0, MaxAlgNodes) \cup {TestGraph}
    /\ result = NoResult
    /\ outcome = NoOutcome
    /\ frame = NoFrame

Raised(op, r) == [op |-> op, status |-> r.status, value |-> None]

\* Lines 38-44: the stored paths, the baseline E, the empty result.
EffCBegin ==
    /\ frame.pc = "idle"
    /\ outcome.op = "none"
    /\ \E shortest_path \in nx_shortest_path(graph) :
         LET nodes == graph.nodes
             E == PyDiv(SumEfficiency(shortest_path, nodes, NoNode, graph),
                        Frac(Len(nodes) * Len(nodes) - Len(nodes), 1))
         IN  IF E.status # "return"
             THEN /\ outcome' = Raised("efficiency_centrality", E)
                  /\ frame' = frame
             ELSE /\ frame' = [pc |-> "loop",
                               shortest_path |-> shortest_path,
                               nodes |-> nodes,
                               E |-> E.value,
                               removed_N |-> RemovedN(nodes),
                               significance |-> <<>>,
                               idx |-> 1]
                  /\ outcome' = outcome
    /\ UNCHANGED <<graph, result>>

\* Lines 45-49: one pass of `for node in nodes`.
EffCNode ==
    /\ frame.pc = "loop"
    /\ frame.idx <= Len(frame.nodes)
    /\ LET node == frame.nodes[frame.idx]
           total == SumEfficiency(frame.shortest_path, frame.nodes, node,
                                  graph)
           E_hat == PyDiv(total,
                          Frac(frame.removed_N * frame.removed_N
                                   - frame.removed_N, 1))
           score == IF E_hat.status # "return" THEN E_hat
                    ELSE PyDiv(RSub(frame.E, E_hat.value), frame.E)
       IN  /\ IF score.status # "return"
              THEN /\ outcome' = Raised("efficiency_centrality", score)
                   /\ frame' = NoFrame
              ELSE /\ frame' = [frame EXCEPT
                                   !.significance =
                                       Append(@, <<node, score.value>>),
                                   !.idx = @ + 1]
                   /\ outcome' = outcome
           /\ graph' = GraphAfterPass(frame.shortest_path, frame.nodes, node,
                                      graph)
    /\ UNCHANGED result

\* Line 50: return significance.
EffCReturn ==
    /\ frame.pc = "loop"
    /\ frame.idx > Len(frame.nodes)
    /\ outcome' = [op |-> "efficiency_centrality", status |-> "return",
                   value |-> frame.significance]
    /\ frame' = NoFrame
    /\ UNCHANGED <<graph, result>>

NextEffC ==
    \/ EffCBegin
    \/ EffCNode
    \/ EffCReturn

SpecEffC == InitEffC /\ [][NextEffC]_vars

\* ----------------------------------------------- _efficiency, call by call
\* One call _efficiency(shortest_path, source, target, removed_node, graph)
\* of lines 46-47, on the paths line 38 stored, for a source and a target
\* after it in `nodes`.  The call changes nothing a later call reads, so
\* one call is taken per behaviour.
CallEfficiency ==
    /\ frame.pc = "loop"
    /\ outcome.op = "none"
    /\ \E i, j \in DOMAIN frame.nodes, removed_node \in Range(frame.nodes) :
         /\ i < j
         /\ LET source == frame.nodes[i]
                target == frame.nodes[j]
            IN  /\ outcome' = [op |-> "_efficiency",
                               args |-> <<source, target, removed_node>>,
                               status |-> "return",
                               value |-> efficiency(frame.shortest_path,
                                             source, target, removed_node,
                                             graph)]
                /\ graph' = IF ReachesSubgraph(frame.shortest_path, source,
                                               target, removed_node)
                            THEN GraphAfterSubgraph(graph, removed_node)
                            ELSE graph
    /\ UNCHANGED <<result, frame>>

NextEfficiency ==
    \/ EffCBegin
    \/ CallEfficiency

SpecEfficiency == InitEffC /\ [][NextEfficiency]_vars

\* ============================================== node/node_significance.py
MaxDim == 3

\* The graphs the spectral algorithms are run on: the complete graph, the
\* path and the graph without edges on n nodes.
CompleteGraph(n) ==
    [nodes |-> NodeList(n),
     edges |-> {<<u, v>> \in (1..n) \X (1..n) : u < v},
     directed |-> FALSE]
PathGraph(n) ==
    [nodes |-> NodeList(n),
     edges |-> {<<u, u + 1>> : u \in 1..(n - 1)},
     directed |-> FALSE]
EdgelessGraph(n) ==
    [nodes |-> NodeList(n), edges |-> {}, directed |-> FALSE]
SmallGraphs == {CompleteGraph(n) : n \in 1..MaxDim}
                   \cup {PathGraph(n) : n \in 1..MaxDim}
                   \cup {EdgelessGraph(n) : n \in 1..MaxDim}

\* np.sum([v * v for v in column])
RECURSIVE SumSquares(_, _)
SumSquares(column, k) ==
    IF k > Len(column) THEN 0
    ELSE column[k] * column[k] + SumSquares(column, k + 1)

\* linalg.eig(matrix)[1], column by column.  The eigenvectors of a graph
\* are not rational in general: eig is taken to return any n distinct
\* non-zero columns with entries 0, 1 or 2 (the scores use only the squares
\* of the entries) and a squared norm of at most 4.  Lines 33-38 use the
\* position of a column only to select it, and any columns can be the
\* selected ones, so the columns are listed in one order, that of
\* ColumnRank.
Entries == {0, 1, 2}
EigenColumns(n) ==
    {column \in [1..n -> Entries] : SumSquares(column, 1) \in 1..4}
RECURSIVE ColumnRank(_, _)
ColumnRank(column, k) ==
    IF k > Len(column) THEN 0
    ELSE column[k] + Cardinality(Entries) * ColumnRank(column, k + 1)
eig(g) ==
    LET n == Len(g.nodes)
    IN  {eigenvectors \in [1..n -> EigenColumns(n)] :
            \A i \in 1..(n - 1) :
                ColumnRank(eigenvectors[i], 1)
                    < ColumnRank(eigenvectors[i + 1], 1)}

\* np.argpartition(-eigenvalues, communities_number)[:communities_number]:
\* a ValueError when kth is out of bounds, else the indices of the
\* communities_number largest eigenvalues, which may sit in any columns.
argpartition(n, communities_number) ==
    IF communities_number >= n THEN [status |-> "ValueError"]
    ELSE [status |-> "return",
          value |-> {idx \in SUBSET (1..n) :
                        Cardinality(idx) = communities_number}]

\* The entry itself over the squared norm, the square left out.
LoadingUnsquared(eigenvectors, eigenvectors_dot, k, i) ==
    Frac(eigenvectors[i][k], eigenvectors_dot[i])
\* eigenvectors[k, idx]**2 / eigenvectors_dot[idx], for idx = i
Loading(eigenvectors, eigenvectors_dot, k, i) ==
    Frac(eigenvectors[i][k] * eigenvectors[i][k], eigenvectors_dot[i])

\* sum([... for idx in lagest_eigenvalues_idx])
RECURSIVE SumLoadings(_, _, _, _)
SumLoadings(eigenvectors, eigenvectors_dot, k, idx) ==
    IF idx = {} THEN Frac(0, 1)
    ELSE LET i == CHOOSE j \in idx : TRUE
         IN  RAdd(Loading(eigenvectors, eigenvectors_dot, k, i),
                  SumLoadings(eigenvectors, eigenvectors_dot, k, idx \ {i}))

\* Lines 36-38, from node k of the list on.
RECURSIVE SpectrumLoop(_, _, _, _, _, _)
SpectrumLoop(g, eigenvectors, idx, communities_number, k, significance) ==
    IF k > Len(g.nodes) THEN [status |-> "return", value |-> significance]
    ELSE LET eigenvectors_dot ==
                 [i \in DOMAIN eigenvectors |->
                     SumSquares(eigenvectors[i], 1)]
             score == PyDiv(SumLoadings(eigenvectors, eigenvectors_dot, k,
                                        idx),
                            Frac(communities_number, 1))
         IN  IF score.status # "return" THEN score
             ELSE SpectrumLoop(g, eigenvectors, idx, communities_number,
                               k + 1,
                               Append(significance,
                                      <<g.nodes[k], score.value>>))

\* Lines 33-41 for the eigenvectors line 32 returned: the set of outcomes.
centrality_metric_spectrum(g, communities_number, eigenvectors) ==
    LET lagest_eigenvalues_idx ==
            argpartition(Len(g.nodes), communities_number)
    IN  IF lagest_eigenvalues_idx.status # "return"
        THEN {[status |-> lagest_eigenvalues_idx.status, idx |-> {}]}
        ELSE {LET r == SpectrumLoop(g, eigenvectors, idx,
                                    communities_number, 1, <<>>)
              IN  IF r.status # "return"
                  THEN [status |-> r.status, idx |-> idx]
                  ELSE [status |-> "return", idx |-> idx,
                        value |-> NodeSignificance(r.value, g,
                                      "centrality_metric_spectrum",
                                      <<<<"communities_number",
                                          communities_number>>,
                                        <<"weight", None>>>>).value]
              : idx \in lagest_eigenvalues_idx.value}

InitSpectrum ==
    /\ graph \in SmallGraphs
    /\ result = NoResult
    /\ outcome = NoOutcome
    /\ frame = NoFrame

\* One call centrality_metric_spectrum(graph, communities_number); the
\* eigenvectors and the selected columns are kept with the arguments.
CallSpectrum ==
    /\ outcome.op = "none"
    /\ Len(graph.nodes) \in 1..MaxDim
    /\ \E communities_number \in 0..MaxDim, eigenvectors \in eig(graph) :
         \E r \in centrality_metric_spectrum(graph, communities_number,
                                             eigenvectors) :
             /\ outcome' = [op |-> "centrality_metric_spectrum",
                            args |-> <<communities_number, eigenvectors,
                                       r.idx>>,
                            status |-> r.status]
             /\ result' = Returned(r)
    /\ UNCHANGED <<graph, frame>>

NextSpectrum == CallSpectrum

SpecSpectrum == InitSpectrum /\ [][NextSpectrum]_vars

\* ======================================== evaluation/community_structure.py
\* A numpy float is a fraction, nan (kept as 0/0) or inf; numpy divides by
\* zero without raising.
NaN == [n |-> 0, d |-> 0]
IsNaN(x) == x.d = 0

\* The number of connected components of the graph.
Component(g, s) ==
    {t \in Range(g.nodes) : Distance(g, NoNode, s, t) # -1}
number_connected_components(g) ==
    Cardinality({Component(g, s) : s \in Range(g.nodes)})

\* The ascending lists of `len` integers from lo..hi.
RECURSIVE Ascending(_, _, _)
Ascending(len, lo, hi) ==
    IF len = 0 THEN {<<>>}
    ELSE UNION {{<<first>> \o rest : rest \in Ascending(len - 1, first, hi)}
                : first \in lo..hi}

RECURSIVE SumList(_, _)
SumList(values, i) ==
    IF i > Len(values) THEN 0 ELSE values[i] + SumList(values, i + 1)

\* nx.laplacian_spectrum(graph): the eigenvalues of the Laplacian in
\* ascending order.  They are not rational in general; they are taken to
\* be any ascending integers that share with them the range 0..n, the sum
\* (the sum of the degrees) and the number of zeros (the number of
\* connected components).
laplacian_spectrum(g) ==
    LET n == Len(g.nodes)
    IN  {eigenvalues \in Ascending(n, 0, n) :
            /\ SumList(eigenvalues, 1) = 2 * Cardinality(g.edges)
            /\ Cardinality({i \in 1..n : eigenvalues[i] = 0})
                   = number_connected_components(g)}

\* values[lo:hi] for 0 <= lo, hi
Slice(values, lo, hi) ==
    LET stop == IF hi > Len(values) THEN Len(values) ELSE hi
    IN  IF lo >= stop THEN <<>> ELSE SubSeq(values, lo + 1, stop)

\* np.mean(values): nan for an empty list (0 / 0).
np_mean(values) ==
    IF values = <<>> THEN NaN ELSE Frac(SumList(values, 1), Len(values))

Epsilon == Frac(1, 10000000)

\* abs(beta - eigenvalue), nothing added.
TermDenominatorNoEpsilon(beta, eigenvalue) ==
    IF IsNaN(beta) THEN NaN
    ELSE LET diff == RSub(beta, Frac(eigenvalue, 1))
         IN  Frac(Abs(diff.n), diff.d)
\* abs(beta - eigenvalue) + 1e-7
TermDenominator(beta, eigenvalue) ==
    IF IsNaN(beta) THEN NaN
    ELSE LET diff == RSub(beta, Frac(eigenvalue, 1))
         IN  RAdd(Frac(Abs(diff.n), diff.d), Epsilon)

\* The kind of the sum of the terms 1 / denominator: the sum of no term is
\* 0, a nan term makes it nan, a zero denominator makes it inf, and the sum
\* of positive terms is positive.  (The common denominator of the terms is
\* beyond the integers of the model checker; the sum is kept as the list
\* of the denominators of its terms.)
SumKind(denominators) ==
    IF denominators = <<>> THEN "zero"
    ELSE IF \E i \in DOMAIN denominators : IsNaN(denominators[i]) THEN "nan"
    ELSE IF \E i \in DOMAIN denominators : denominators[i].n = 0 THEN "inf"
    ELSE "positive"

\* Lines 33-41 for the eigenvalues line 35 returned.  zero_divisions lists
\* the divisions that had a zero divisor: in np.mean, in a term, in H.
significance_index(g, communities_number, eigenvalues) ==
    LET n == Len(g.nodes)
        k == Frac(2 * Cardinality(g.edges), n)
        averaged == Slice(eigenvalues, 1, communities_number)
        beta == np_mean(averaged)
        summed == Slice(eigenvalues, communities_number, n)
        denominators == [i \in DOMAIN summed |->
                            TermDenominator(beta, summed[i])]
        amplification_coeff == SumKind(denominators)
        divisor == IF amplification_coeff = "nan" THEN "nan"
                   ELSE IF k.n = 0 /\ amplification_coeff = "inf" THEN "nan"
                   ELSE IF k.n = 0 \/ amplification_coeff = "zero"
                   THEN "zero"
                   ELSE amplification_coeff
        H == CASE divisor = "nan" -> "nan"
               [] divisor = "zero" -> "inf"
               [] divisor = "inf" -> "zero"
               [] OTHER -> "positive"
    IN  [status |-> "return",
         value |-> [H |-> H, n |-> n, k |-> k, beta |-> beta,
                    averaged |-> averaged, summed |-> summed,
                    denominators |-> denominators,
                    zero_divisions |->
                        (IF averaged = <<>> THEN {"mean"} ELSE {})
                        \cup (IF amplification_coeff = "inf"
                              THEN {"term"} ELSE {})
                        \cup (IF divisor = "zero" THEN {"H"} ELSE {})]]

InitIndex ==
    /\ graph \in UndirectedGraphs(1, MaxAlgNodes)
    /\ result = NoResult
    /\ outcome = NoOutcome
    /\ frame = NoFrame

\* One call significance_index(graph, communities_number).
CallSignificanceIndex ==
    /\ outcome.op = "none"
    /\ Len(graph.nodes) >= 1
    /\ \E communities_number \in 1..(Len(graph.nodes) + 1),
          eigenvalues \in laplacian_spectrum(graph) :
         LET r == significance_index(graph, communities_number, eigenvalues)
         IN  outcome' = [op |-> "significance_index",
                         args |-> <<communities_number, eigenvalues>>,
                         status |-> r.status,
                         value |-> r.value]
    /\ UNCHANGED <<graph, result, frame>>

NextIndex == CallSignificanceIndex

SpecIndex == InitIndex /\ [][NextIndex]_vars

\* ================================================ every entry point
\* One call of one of the six algorithms on a graph; efficiency_centrality
\* runs step by step, the others in one step.
NoCallYet == frame.pc = "idle" /\ outcome.op = "none"

NextAlgorithms ==
    \/ NoCallYet /\ CallDiffusionImportance
    \/ NoCallYet /\ CallBrightness
    \/ NoCallYet /\ CallERWKpath
    \/ NoCallYet /\ CallSpectrum
    \/ NoCallYet /\ CallSignificanceIndex
    \/ EffCBegin
    \/ EffCNode
    \/ EffCReturn

SpecAlgorithms == InitSpectrum /\ [][NextAlgorithms]_vars

\* ================================================ claims, result classes

\* C1: NodeSignificance.get(node) returns the stored score of a node that
\* is a key of the mapping, and fails with a not-found error for a node
\* that is not.
C1_NodeGetContract ==
    outcome.op = "NodeSignificance.get" =>
        LET node == outcome.args[1]
        IN  IF node \in Keys(result.significance)
            THEN /\ outcome.status = "return"
                 /\ outcome.value = Lookup(result.significance, node)
            ELSE outcome.status \in {"NodeNotFound", "KeyError"}

\* C2: on an undirected graph the matrix built at construction is
\* symmetric, M[i][j] = M[j][i] for all indices i, j.
C2_SymmetricMatrix ==
    (result.kind = "edge" /\ ~is_directed(result.graph)) =>
        \A i, j \in 0..(Len(result.graph.nodes) - 1) :
            result.significance_matrix[i][j] = result.significance_matrix[j][i]

\* An edge result on an undirected graph, keyed by edges of the graph, with
\* a non-zero entry off the diagonal.
C2_Witness ==
    /\ result.kind = "edge"
    /\ ~is_directed(result.graph)
    /\ result.significance # <<>>
    /\ \A key \in Keys(result.significance) :
          has_edge(result.graph, key[1], key[2])
    /\ \E i, j \in 0..(Len(result.graph.nodes) - 1) :
          i # j /\ result.significance_matrix[i][j] # 0

\* The scores the mapping stores for the pair (source, target): under the
\* pair itself and, on an undirected graph, under the reversed pair.
StoredScores(self, source, target) ==
    {self.significance[i][2] : i \in
        {k \in DOMAIN self.significance :
            \/ self.significance[k][1] = <<source, target>>
            \/ /\ ~is_directed(self.graph)
               /\ self.significance[k][1] = <<target, source>>}}

\* C3: EdgeSignificance.get(source, target) fails with NodeNotFound iff
\* source or target is not a node of the graph; for two nodes it returns a
\* score stored for the pair, or 0 when the pair has no entry.
C3_EdgeGetContract ==
    outcome.op = "EdgeSignificance.get" =>
        LET source == outcome.args[1]
            target == outcome.args[2]
            bothNodes == has_node(graph, source) /\ has_node(graph, target)
            stored == StoredScores(result, source, target)
        IN  /\ outcome.status \in {"return", "NodeNotFound"}
            /\ outcome.status = "NodeNotFound" <=> ~bothNodes
            /\ (bothNodes /\ stored # {}) => outcome.value \in stored
            /\ (bothNodes /\ stored = {}) => outcome.value = 0

\* get was called both ways round on an undirected edge that has an entry.
C3_Witness ==
    /\ outcome.op = "EdgeSignificance.get"
    /\ outcome.status = "return"
    /\ ~is_directed(graph)
    /\ outcome.args[1] # outcome.args[2]
    /\ <<outcome.args[2], outcome.args[1]>> \in Keys(result.significance)
    /\ <<outcome.args[2], outcome.args[1]>> \in graph.edges
    /\ outcome.value # 0

\* C4: construction validates the mapping, so no result exists whose
\* mapping has a key that is not a node (node result) or not an edge (edge
\* result) of its graph.
C4_NoDanglingKey ==
    /\ result.kind = "node" =>
          \A key \in Keys(result.significance) : has_node(result.graph, key)
    /\ result.kind = "edge" =>
          \A key \in Keys(result.significance) :
              has_edge(result.graph, key[1], key[2])

\* C10: write_to_json succeeds on an edge result with at least one entry
\* and writes every edge's score under an encoded key.
C10_EdgeJson ==
    (/\ outcome.op = "write_to_json"
     /\ result.kind = "edge"
     /\ result.significance # <<>>
     /\ \A key \in Keys(result.significance) :
           has_edge(result.graph, key[1], key[2])) =>
        /\ outcome.status = "return"
        /\ Len(outcome.value.significance) = Len(result.significance)

\* ============================================== claims, edge algorithms

\* The number of nodes adjacent to both u and v, u and v excluded.
CommonNeighbors(g, u, v) ==
    Cardinality((Adjacent(g, u) \cap Adjacent(g, v)) \ {u, v})

\* C5: diffusion_importance on an undirected graph returns an edge result
\* whose score for every edge (u, v) is the number of common neighbours of
\* u and v.
C5_DiffusionScores ==
    outcome.op = "diffusion_importance" =>
        /\ outcome.status = "return"
        /\ result.method_name = "diffusion_importance"
        /\ \A e \in graph.edges :
              /\ e \in Keys(result.significance)
              /\ Lookup(result.significance, e)
                     = Frac(CommonNeighbors(graph, e[1], e[2]), 1)

\* The size of the first clique of the list that includes the set S, 0 if
\* there is none (the whole list is scanned).
RECURSIVE FirstCliqueSize(_, _, _)
FirstCliqueSize(cliques, i, S) ==
    IF i > Len(cliques) THEN 0
    ELSE IF S \subseteq cliques[i] THEN Cardinality(cliques[i])
    ELSE FirstCliqueSize(cliques, i + 1, S)

\* C6: brightness gives every edge (u, v) the score sqrt(S_u * S_v) / S_e,
\* S_u, S_v, S_e the sizes of the first clique in descending size order
\* containing u, v, and both; the early exit changes nothing.
C6_BrightnessScores ==
    outcome.op = "brightness" =>
        /\ outcome.status = "return"
        /\ result.method_name = "brightness"
        /\ \A e \in graph.edges :
              /\ e \in Keys(result.significance)
              /\ LET cliques == outcome.args[1]
                     score == Lookup(result.significance, e)
                 IN  /\ score.radicand
                            = FirstCliqueSize(cliques, 1, {e[1]})
                              * FirstCliqueSize(cliques, 1, {e[2]})
                     /\ score.den = FirstCliqueSize(cliques, 1, {e[1], e[2]})

\* C7: with ruo <= 0 or k <= 0, on a graph with at least one edge, the
\* ERW-Kpath estimator returns the weight 1/|E| for every edge.
C7_ERWUniform ==
    (/\ outcome.op = "ERW_Kpath"
     /\ graph.edges # {}
     /\ (outcome.args[1] <= 0 \/ outcome.args[2] <= 0)) =>
        /\ outcome.status = "return"
        /\ result.method_name = "ERW_Kpath"
        /\ Keys(result.significance) = graph.edges
        /\ \A e \in graph.edges :
              Lookup(result.significance, e)
                  = Frac(1, Cardinality(graph.edges))

\* ========================================== claims, efficiency centrality

\* The sum of 1/hops over the unordered pairs of the nodes in S that are
\* connected in the graph without the node `removed`.
RECURSIVE PairSum(_, _, _)
PairSum(g, removed, S) ==
    IF S = {} THEN Frac(0, 1)
    ELSE LET s == CHOOSE x \in S : TRUE
             rest == S \ {s}
             RECURSIVE from(_)
             from(T) ==
                 IF T = {} THEN Frac(0, 1)
                 ELSE LET t == CHOOSE x \in T : TRUE
                          h == Distance(g, removed, s, t)
                      IN  RAdd(IF h = -1 THEN Frac(0, 1) ELSE Frac(1, h),
                               from(T \ {t}))
         IN  RAdd(from(rest), PairSum(g, removed, rest))

\* (E - E_hat(x)) / E with both sums divided by n(n-1); the common divisor
\* cancels.
ReferenceScore(g, x) ==
    LET S == PairSum(g, NoNode, Range(g.nodes))
        Sx == PairSum(g, x, Range(g.nodes) \ {x})
    IN  Frac(S.n * Sx.d - Sx.n * S.d, S.n * Sx.d)

\* The values test_EffC expects, in units of 1e-4.
ExpectedEffC == <<1806, 2083, 5215, 2014, 2500, 2014, 2361, 1875, 2361>>

\* C8: efficiency_centrality returns (E - E_hat(x)) / E for every node x,
\* and on the test graph the keys are 1..9 and every value is within 1e-4
\* of the test's.
C8_EfficiencyCentrality ==
    outcome.op = "efficiency_centrality" =>
        /\ outcome.status = "return" =>
              /\ Keys(outcome.value) = Range(graph.nodes)
              /\ Len(outcome.value) = Len(graph.nodes)
              /\ \A x \in Range(graph.nodes) :
                    Lookup(outcome.value, x) = ReferenceScore(graph, x)
        /\ graph = TestGraph =>
              /\ outcome.status = "return"
              /\ Keys(outcome.value) = 1..9
              /\ \A x \in 1..9 :
                    LET score == Lookup(outcome.value, x)
                    IN  Abs(10000 * score.n - ExpectedEffC[x] * score.d)
                            <= score.d

\* efficiency_centrality has returned on the test graph.
C8_Witness ==
    /\ outcome.op = "efficiency_centrality"
    /\ outcome.status = "return"
    /\ graph = TestGraph

\* The baseline efficiency is 0: at least two nodes and no two of them
\* connected.
ZeroBaseline(g) ==
    /\ Len(g.nodes) >= 2
    /\ \A s, t \in Range(g.nodes) : s # t => Distance(g, NoNode, s, t) = -1

\* C9: when the baseline efficiency E is 0, efficiency_centrality fails
\* with a division error; it stores no score and returns no mapping.
C9_ZeroBaselineFails ==
    ZeroBaseline(graph) =>
        /\ outcome.op = "efficiency_centrality" =>
              outcome.status = "ZeroDivisionError"
        /\ frame.pc = "loop" => frame.significance = <<>>

\* The call has failed on a graph of two or more nodes with E = 0.
C9_Witness ==
    /\ ZeroBaseline(graph)
    /\ outcome.op = "efficiency_centrality"
    /\ outcome.status = "ZeroDivisionError"

\* 1/hops of a shortest path from s to t in the graph without x; 0 when x
\* is s or t or when no path is left.
EfficiencyWithout(g, x, s, t) ==
    IF x = s \/ x = t THEN Frac(0, 1)
    ELSE LET h == Distance(g, x, s, t)
         IN  IF h = -1 THEN Frac(0, 1) ELSE Frac(1, h)

\* C14: the value _efficiency returns for removed_node = x and a pair
\* (s, t) is 1/hops of a shortest s-t path in the graph without x, 0 when
\* s and t are disconnected there, and 0 when x is s or t.
C14_ReuseExact ==
    outcome.op = "_efficiency" =>
        LET s == outcome.args[1]
            t == outcome.args[2]
            x == outcome.args[3]
        IN  /\ outcome.status = "return"
            /\ outcome.value = EfficiencyWithout(graph, x, s, t)

\* _efficiency recomputed a pair whose stored path runs through the removed
\* node and found a longer path round it.
C14_Witness ==
    /\ outcome.op = "_efficiency"
    /\ LET s == outcome.args[1]
           t == outcome.args[2]
           x == outcome.args[3]
           stored == StoredPath(frame.shortest_path, s, t)
       IN  /\ x \notin {s, t}
           /\ x \in Range(stored)
           /\ outcome.value.n = 1
           /\ outcome.value.d > Len(stored) - 1

\* a <= b for two fractions with positive denominators.
RLeq(a, b) == a.n * b.d <= b.n * a.d

\* C17: with a baseline E > 0, every node x has 0 <= E_hat(x) <= E and a
\* score (E - E_hat(x)) / E in [0, 1], and no pair's efficiency with x
\* removed exceeds its efficiency in the whole graph.
C17_EfficiencyBounds ==
    /\ (frame.pc = "loop" /\ frame.idx > 1) =>
          LET x == frame.nodes[frame.idx - 1]
              pairs == frame.removed_N * frame.removed_N - frame.removed_N
              total == SumEfficiency(frame.shortest_path, frame.nodes, x,
                                     graph)
              E_hat == Frac(total.n, total.d * pairs)
          IN  /\ frame.E.n > 0
              /\ RLeq(Frac(0, 1), E_hat)
              /\ RLeq(E_hat, frame.E)
              /\ \A i, j \in DOMAIN frame.nodes :
                    i < j =>
                      RLeq(efficiency(frame.shortest_path, frame.nodes[i],
                                      frame.nodes[j], x, graph),
                           efficiency(frame.shortest_path, frame.nodes[i],
                                      frame.nodes[j], NoNode, graph))
              /\ \A k \in DOMAIN frame.significance :
                    /\ RLeq(Frac(0, 1), frame.significance[k][2])
                    /\ RLeq(frame.significance[k][2], Frac(1, 1))
    /\ (outcome.op = "efficiency_centrality" /\ outcome.status = "return") =>
          \A k \in DOMAIN outcome.value :
              /\ RLeq(Frac(0, 1), outcome.value[k][2])
              /\ RLeq(outcome.value[k][2], Frac(1, 1))

\* The call has returned on a connected graph with a leaf, and the leaf's
\* score is strictly between 0 and 1.
C17_Witness ==
    /\ outcome.op = "efficiency_centrality"
    /\ outcome.status = "return"
    /\ \A s, t \in Range(graph.nodes) : Distance(graph, NoNode, s, t) # -1
    /\ \E x \in Range(graph.nodes) :
          /\ Cardinality(Adjacent(graph, x)) = 1
          /\ Lookup(outcome.value, x).n > 0
          /\ Lookup(outcome.value, x).n < Lookup(outcome.value, x).d

\* ============================================= claims, spectral centrality

RECURSIVE SumScores(_, _)
SumScores(significance, i) ==
    IF i > Len(significance) THEN Frac(0, 1)
    ELSE RAdd(significance[i][2], SumScores(significance, i + 1))

AtLeastEpsilon(x) ==
    /\ x.n > 0
    /\ \/ x.d \div x.n < 10000000
       \/ x.d \div x.n = 10000000 /\ x.d % x.n = 0

RECURSIVE Trails(_, _, _, _, _)
Trails(g, v, steps, k, used) ==
    LET open == {e \in g.edges \ used : v = e[1] \/ v = e[2]}
    IN  IF steps >= k \/ open = {} THEN {<<>>}
        ELSE UNION {{<<e>> \o rest :
                        rest \in Trails(g, IF v = e[1] THEN e[2] ELSE e[1],
                                        steps + 1, k, used \cup {e})}
                    : e \in open}

\* C15: one walk of _message_propagation ends after at most k steps; every
\* step takes an edge at the current node not taken before in the walk,
\* adds the increment to that edge alone and moves to its other end; the
\* walk stops exactly when it has k steps or no such edge is left, so no
\* edge is incremented twice.
C15_SingleWalk ==
    outcome.op = "_message_propagation" =>
        /\ outcome.status = "return"
        /\ \E trail \in Trails(graph, outcome.args[1], 0, outcome.args[2],
                                {}) :
              /\ Len(trail) <= (IF outcome.args[2] < 0 THEN 0
                                ELSE outcome.args[2])
              /\ \A i, j \in DOMAIN trail : trail[i] = trail[j] => i = j
              /\ Keys(outcome.value) = graph.edges
              /\ \A e \in graph.edges :
                    Lookup(outcome.value, e)
                        = RAdd(Frac(1, Cardinality(graph.edges)),
                               IF e \in Range(trail)
                               THEN Frac(outcome.args[3], 1)
                               ELSE Frac(0, 1))

\* The number of increments an edge's weight holds: (weight - 1/|E|) / beta
\* when that is a whole number, -1 otherwise.
Traversals(weight, edges_number, beta) ==
    LET extra == RSub(weight, Frac(1, edges_number))
        times == Frac(extra.n, extra.d * beta)
    IN  IF times.d = 1 THEN times.n ELSE -1

RECURSIVE SumTraversals(_, _, _, _)
SumTraversals(edge_weight, i, edges_number, beta) ==
    IF i > Len(edge_weight) THEN 0
    ELSE Traversals(edge_weight[i][2], edges_number, beta)
             + SumTraversals(edge_weight, i + 1, edges_number, beta)

\* C16: after the m = ruo iterations of a call with k >= 0 on a graph with
\* an edge, the keys of edge_weight are the edges of the graph, every
\* weight is 1/|E| + beta * (its number of traversals, between 0 and m),
\* and the weights sum to 1 + beta * (the steps taken) <= 1 + beta * m * k.
C16_Accumulator ==
    (/\ outcome.op = "ERW_Kpath"
     /\ graph.edges # {}
     /\ outcome.args[1] >= 0
     /\ outcome.args[2] >= 0) =>
        LET k == outcome.args[1]
            m == outcome.args[2]
            beta == outcome.args[3]
            edges_number == Cardinality(graph.edges)
            steps == SumTraversals(result.significance, 1, edges_number,
                                   beta)
        IN  /\ outcome.status = "return"
            /\ result.method_name = "ERW_Kpath"
            /\ Keys(result.significance) = graph.edges
            /\ Len(result.significance) = edges_number
            /\ \A i \in DOMAIN result.significance :
                  Traversals(result.significance[i][2], edges_number, beta)
                      \in 0..m
            /\ SumScores(result.significance, 1) = Frac(1 + beta * steps, 1)
            /\ steps <= m * k

\* ================================================== claims, frame effect

\* C11: no step of any of the six algorithms, returning or failing,
\* changes the graph it is given: the nodes and the edges after the step
\* are those before it.
C11_GraphUnchanged == [][graph' = graph]_vars

\* efficiency_centrality has done the pass for a node x that is on the
\* stored path of a pair it is not an end of (line 29 built the subgraph
\* without x), and x is still a node of the graph.
C11_Witness ==
    /\ frame.pc = "loop"
    /\ frame.idx > 1
    /\ LET x == frame.nodes[frame.idx - 1]
       IN  /\ has_node(graph, x)
           /\ \E i, j \in DOMAIN frame.nodes :
                 /\ i < j
                 /\ ReachesSubgraph(frame.shortest_path, frame.nodes[i],
                                    frame.nodes[j], x)

====
